---- MODULE Spec2Model ----
(***************************************************************************)
(* Model of data_fetcher.py (pass resolution, synthetic pass generator,    *)
(* collision estimator) and of the call made by app.py's index().          *)
(*                                                                         *)
(* Numbers: degrees are carried in tenths (max_elev_deg 45.3 is 453),      *)
(* distances in hundredths of a km (5.10 is 510), the uniform draw         *)
(* random.random() as the integer r in 0..RngModulus-1 that stands for     *)
(* r/RngModulus.  The process-wide random source is a seeded deterministic *)
(* generator: its stream is a function of its state, random.seed(S) sets   *)
(* the state from S, random.seed() sets it from operating-system entropy   *)
(* (a nondeterministic choice).                                            *)
(***************************************************************************)
EXTENDS Integers, Sequences, FiniteSets, TLC

VARIABLES pc, op, rng, clock, localOffset, jsonErrorIsRequestException,
          netCalls, sim, ret, path, prev, phase, dur

vars == <<pc, op, rng, clock, localOffset, jsonErrorIsRequestException,
          netCalls, sim, ret, path, prev, phase, dur>>

(* ----------------------------- bounds ---------------------------------- *)
MaxCount == 3
MaxSeed == 1
MaxClock == 3
MaxDays == 1
MaxLive == 2
RngModulus == 32
TicksPerDay == 2

(* ------------------------- optional values ----------------------------- *)
None == <<>>
Some(x) == <<x>>

(* ---------------------- the random source ------------------------------ *)
RngStates == 0 .. (RngModulus - 1)

\* one step of the generator's stream
RngNext(s) == (5 * s + 3) % RngModulus

\* random.seed(seed) / random.seed(): the state after seeding
\* (SeedStateNoSeed: the variant that never uses the seed)
SeedStateNoSeed(seed, entropy) == entropy
SeedState(seed, entropy) == IF seed # None THEN seed[1] % RngModulus ELSE entropy

\* random.random() < p, p given in hundredths
RandomLess(r, pHundredths) == r * 100 < pHundredths * RngModulus

\* random.randint(a, b)
RandInt(r, a, b) == a + (r * (b - a + 1)) \div RngModulus

\* random.choice(seq)
RandChoice(r, seq) == seq[1 + (r * Len(seq)) \div RngModulus]

\* random.gauss(45, 15), in hundredths of a degree, over mean +/- 3 sigma
RandGauss(r) == 4500 + ((2 * r + 1 - RngModulus) * 4500) \div RngModulus

(* ---------------------- _simulated_passes ------------------------------ *)
day_gap_choices == <<1, 1, 2, 2, 3, 4>>

\* round(x, 1) of a value in hundredths, to tenths (ties to even, as round()
\* does on an exactly representable tie)
Round1(h) ==
    LET q == h \div 10
        m == h % 10
    IN  IF m < 5 THEN q
        ELSE IF m > 5 THEN q + 1
        ELSE IF q % 2 = 0 THEN q ELSE q + 1

Min(a, b) == IF a < b THEN a ELSE b
Max(a, b) == IF a > b THEN a ELSE b

\* max_elev = round(min(85.0, max(10.0, gauss)), 1), in tenths
MaxElev(g) == Round1(Min(8500, Max(1000, g)))

\* duration = int(max(120, min(900, int(120 + max_elev*6 + d)))); max_elev*6
\* is exact or at least 0.2 away from an integer, so int() is the floor of
\* the exact sum (DurationRounded: the variant that rounds instead)
DurationRounded(e, d) == Max(120, Min(900, (1200 + 6 * e + 10 * d + 5) \div 10))
Duration(e, d) == Max(120, Min(900, (1200 + 6 * e + 10 * d) \div 10))

\* the switch test of the loop: random.random() >= 0.15
FlipPhase(r) == ~RandomLess(r, 15)

\* a datetime: day number, time of day, utc offset in minutes
DateTime(day, hour, minute, second, off) ==
    [day |-> day, hour |-> hour, minute |-> minute, second |-> second, offset |-> off]

\* dt.astimezone(tz): the same instant at another utc offset
AsTimezone(dt, off) ==
    LET total == dt.day * 1440 + dt.hour * 60 + dt.minute - dt.offset + off
    IN  DateTime(total \div 1440, (total % 1440) \div 60, total % 60, dt.second, off)

\* strftime("%A, %B %d at %I:%M:%S %p"): weekday, date, 12-hour clock, AM/PM
_fmt_pass_dt(dt) ==
    [weekday |-> dt.day % 7, date |-> dt.day,
     hour12 |-> IF dt.hour % 12 = 0 THEN 12 ELSE dt.hour % 12,
     minute |-> dt.minute, second |-> dt.second,
     ampm |-> IF dt.hour < 12 THEN "AM" ELSE "PM"]

SimulatedSource == "simulated"

\* the date of datetime.utcnow() at a clock reading
UtcDay(c) == c \div TicksPerDay

\* lines 115-118: the instant the generator starts from
SimNow(start_utc, c) ==
    IF start_utc = None THEN UtcDay(c)
    ELSE IF start_utc[1].isDatetime THEN start_utc[1].day ELSE UtcDay(c)

\* lines 110-125: seeding, start instant, first phase draw
SimStart(number, start_utc, seed, entropy, c) ==
    LET s0 == SeedState(seed, entropy)
    IN  [frame |-> [number |-> number, now |-> SimNow(start_utc, c), i |-> 0,
                    current_date |-> SimNow(start_utc, c),
                    is_evening |-> RandomLess(s0, 65), passes |-> <<>>],
         rng |-> RngNext(s0)]

\* lines 127-168: one iteration of the loop, drawing from state s
SimIter(f, s, off) ==
    LET r1 == s
        r2 == RngNext(r1)
        r3 == RngNext(r2)
        r4 == RngNext(r3)
        r5 == RngNext(r4)
        r6 == RngNext(r5)
        r7 == RngNext(r6)
        gap == RandChoice(r1, day_gap_choices)
        date == f.current_date + gap
        flipped == FlipPhase(r2)
        evening == IF flipped THEN ~f.is_evening ELSE f.is_evening
        hour == IF evening THEN RandInt(r3, 18, 23) ELSE RandInt(r3, 4, 7)
        minute == RandInt(r4, 0, 59)
        second == RandInt(r5, 0, 59)
        pass_dt_utc == DateTime(date, hour, minute, second, 0)
        pass_dt_local == AsTimezone(pass_dt_utc, off)
        max_elev == MaxElev(RandGauss(r6))
        d == RandInt(r7, -60, 60)
        duration == Duration(max_elev, d)
        event == [time |-> _fmt_pass_dt(pass_dt_local),
                  iso_time_local |-> pass_dt_local,
                  iso_time_utc |-> pass_dt_utc,
                  duration |-> duration,
                  max_elev_deg |-> max_elev,
                  source |-> SimulatedSource]
    IN  [frame |-> [f EXCEPT !.i = f.i + 1, !.current_date = date,
                             !.is_evening = evening,
                             !.passes = Append(f.passes, event)],
         rng |-> RngNext(r7),
         phase |-> [r |-> r2, before |-> f.is_evening, after |-> evening, d |-> d]]

(* ------------------------- get_iss_passes ------------------------------ *)
\* line 206: the tag of an event built from an upstream record
\* (LiveSourceSimulated: the variant that copies the generator's tag)
LiveSourceSimulated == "simulated"
LiveSource == "n2yo"

\* number of passes asked of the generator on every fallback (lines 182-213)
\* (FallbackNumberDefault: the variant that leaves number at its default)
FallbackNumberDefault(number_of_passes) == 3
FallbackNumber(number_of_passes) == number_of_passes

\* line 181: whether the live request is attempted
\* (UseLiveAlways: the variant without the test)
UseLiveAlways(USE_REAL_API) == TRUE
UseLive(USE_REAL_API) == USE_REAL_API

\* upstream pass records
PassRecs ==
    { [hasStart |-> TRUE, startUTC |-> 72000, hasDuration |-> TRUE, duration |-> 300],
      [hasStart |-> TRUE, startUTC |-> 90061, hasDuration |-> FALSE, duration |-> 0],
      [hasStart |-> FALSE, startUTC |-> 0, hasDuration |-> TRUE, duration |-> 300] }

PassLists == UNION { [1 .. n -> PassRecs] : n \in 1 .. MaxLive }

Body(kind, truthy, hasPasses, passes) ==
    [kind |-> kind, truthy |-> truthy, hasPasses |-> hasPasses, passes |-> passes]

\* what r.json() is applied to: text that is not JSON, null, a number or
\* boolean, a list (with or without the string "passes" in it), an object
Bodies ==
    { Body("invalid", FALSE, FALSE, <<>>),
      Body("null", FALSE, FALSE, <<>>),
      Body("scalar", TRUE, FALSE, <<>>),
      Body("scalar", FALSE, FALSE, <<>>),
      Body("list", FALSE, FALSE, <<>>),
      Body("list", TRUE, FALSE, <<>>),
      Body("list", TRUE, TRUE, <<>>),
      Body("object", FALSE, FALSE, <<>>),
      Body("object", TRUE, FALSE, <<>>),
      Body("object", TRUE, TRUE, <<>>) }
    \cup { Body("object", TRUE, TRUE, ps) : ps \in PassLists }

\* what requests.get() ends with: an exception, or a response
Responses ==
    { [kind |-> "exception", status |-> 0, body |-> Body("null", FALSE, FALSE, <<>>)] }
    \cup { [kind |-> "http", status |-> st, body |-> Body("null", FALSE, FALSE, <<>>)] :
              st \in {403, 404, 429, 500} }
    \cup { [kind |-> "http", status |-> 200, body |-> b] : b \in Bodies }

\* datetime.fromtimestamp(t, tz=timezone.utc)
FromTimestamp(t) ==
    DateTime(t \div 86400, (t % 86400) \div 3600, (t % 3600) \div 60, t % 60, 0)

\* lines 201-208: one upstream record to one event
LiveEvent(p, off) ==
    LET start_time_utc == FromTimestamp(p.startUTC)
        start_time_local == AsTimezone(start_time_utc, off)
    IN  [time |-> _fmt_pass_dt(start_time_local),
         duration |-> IF p.hasDuration THEN p.duration ELSE 0,
         source |-> LiveSource,
         iso_time_utc |-> start_time_utc,
         iso_time_local |-> start_time_local]

\* line 194: not data or 'passes' not in data or not data['passes']
\* ("raise": the membership test or the subscript is not defined on data)
\* (IsEmptyBodyNoPassesCheck: the variant without the last disjunct)
IsEmptyBodyNoPassesCheck(data) ==
    IF ~data.truthy THEN "yes"
    ELSE IF data.kind = "scalar" THEN "raise"
    ELSE IF ~data.hasPasses THEN "yes"
    ELSE IF data.kind = "list" THEN "raise"
    ELSE "no"
IsEmptyBody(data) ==
    IF ~data.truthy THEN "yes"
    ELSE IF data.kind = "scalar" THEN "raise"
    ELSE IF ~data.hasPasses THEN "yes"
    ELSE IF data.kind = "list" THEN "raise"
    ELSE IF data.passes = <<>> THEN "yes"
    ELSE "no"

\* lines 186-213: what the live attempt ends with.  "fallback": the generator
\* is called; "live": pass_info is returned; "raise": an exception that is
\* not a RequestException leaves the function.
Outcome(resp, jsonCaught) ==
    IF resp.kind = "exception" THEN [to |-> "fallback", why |-> "NetworkError"]
    ELSE IF resp.status = 429 THEN [to |-> "fallback", why |-> "RateLimited"]
    ELSE IF resp.status = 403 THEN [to |-> "fallback", why |-> "Forbidden"]
    ELSE IF resp.status >= 400 THEN [to |-> "fallback", why |-> "NetworkError"]
    ELSE IF resp.body.kind = "invalid"
         THEN [to |-> IF jsonCaught THEN "fallback" ELSE "raise", why |-> "ParseError"]
    ELSE IF IsEmptyBody(resp.body) = "raise" THEN [to |-> "raise", why |-> "ParseError"]
    ELSE IF IsEmptyBody(resp.body) = "yes"
         THEN [to |-> "fallback",
               why |-> IF resp.body.kind = "list" THEN "ParseError" ELSE "EmptyResult"]
    ELSE IF \E k \in 1 .. Len(resp.body.passes) : ~resp.body.passes[k].hasStart
         THEN [to |-> "raise", why |-> "ParseError"]
    ELSE [to |-> "live", why |-> "Success"]

PassInfo(passes, off) == [k \in 1 .. Len(passes) |-> LiveEvent(passes[k], off)]

(* ----------------------- get_collision_risks --------------------------- *)
ISS_ALTITUDE_KM == 408
ISS_INCLINATION_TENTHS == 516

debris_objects ==
    << [name |-> "FENGYUN-1C DEB", altitude |-> 850, inclination |-> 985],
       [name |-> "COSMOS-2251 DEB", altitude |-> 790, inclination |-> 740],
       [name |-> "IRIDIUM-33 DEB", altitude |-> 770, inclination |-> 864],
       [name |-> "ATLAS V R/B", altitude |-> 420, inclination |-> 517],
       [name |-> "STARLINK DEB", altitude |-> 550, inclination |-> 530],
       [name |-> "CZ-2C R/B", altitude |-> 430, inclination |-> 495] >>

Abs(x) == IF x < 0 THEN -x ELSE x

RECURSIVE IsqrtBetween(_, _, _)
IsqrtBetween(n, lo, hi) ==
    IF lo >= hi THEN lo
    ELSE LET mid == (lo + hi + 1) \div 2
         IN  IF mid * mid <= n THEN IsqrtBetween(n, mid, hi)
             ELSE IsqrtBetween(n, lo, mid - 1)

\* floor(sqrt(n))
Isqrt(n) == IsqrtBetween(n, 0, 30000)

\* line 245: the quantity under math.sqrt; inc_diff * 10 is the difference
\* in tenths of a degree
Radicand(obj) ==
    Abs(obj.altitude - ISS_ALTITUDE_KM) * 2
    + Abs(obj.inclination - ISS_INCLINATION_TENTHS) * 2

\* lines 246-251: distance < 10, distance < 30, on distance = sqrt(radicand)
Level(radicand) ==
    IF radicand < 100 THEN "High"
    ELSE IF radicand < 900 THEN "Medium"
    ELSE "Low"

\* line 259: round(sqrt(radicand), 2), in hundredths
MissDistance(radicand) == (Isqrt(40000 * radicand) + 1) \div 2

\* lines 255-256: now + timedelta(hours=h), formatted
EventTime(c, h) ==
    LET total == c * (24 \div TicksPerDay) + h
        hour == total % 24
    IN  [weekday |-> (total \div 24) % 7, date |-> total \div 24,
         hour12 |-> IF hour % 12 = 0 THEN 12 ELSE hour % 12,
         ampm |-> IF hour < 12 THEN "AM" ELSE "PM"]

\* lines 242-264: one catalog entry to one event (the probability score,
\* an exponential of the distance, is not carried)
RiskEvent(obj, r, days, c) ==
    [object_name |-> obj.name,
     miss_distance_km |-> MissDistance(Radicand(obj)),
     time |-> EventTime(c, RandInt(r, 6, Max(6, days * 24))),
     level |-> Level(Radicand(obj)),
     simulated |-> TRUE]

\* list.sort(key=miss_distance_km): stable insertion
\* (SortUnsorted: the variant that leaves the catalog order)
RECURSIVE InsertSorted(_, _)
InsertSorted(sorted, e) ==
    IF sorted = <<>> THEN <<e>>
    ELSE IF Head(sorted).miss_distance_km <= e.miss_distance_km
         THEN <<Head(sorted)>> \o InsertSorted(Tail(sorted), e)
         ELSE <<e>> \o sorted

RECURSIVE SortByMissDistance(_)
SortUnsorted(risks) == risks
SortByMissDistance(risks) ==
    IF risks = <<>> THEN <<>>
    ELSE InsertSorted(SortByMissDistance(SubSeq(risks, 1, Len(risks) - 1)),
                      risks[Len(risks)])

\* lines 241-264: the loop over the catalog, drawing from state s
RECURSIVE RisksFrom(_, _, _, _)
RisksFrom(k, s, days, c) ==
    IF k > Len(debris_objects) THEN [risks |-> <<>>, rng |-> s]
    ELSE LET rest == RisksFrom(k + 1, RngNext(s), days, c)
         IN  [risks |-> <<RiskEvent(debris_objects[k], s, days, c)>> \o rest.risks,
              rng |-> rest.rng]

(* --------------------------- the program ------------------------------- *)
GaussLo == 500
GaussHi == 9000
DLo == -60
DHi == 60

NoOp == [name |-> "none", number |-> 0, start_utc |-> None, seed |-> None,
         USE_REAL_API |-> FALSE, days |-> 0]
NoFrame == [number |-> 0, now |-> 0, i |-> 0, current_date |-> 0,
            is_evening |-> FALSE, passes |-> <<>>]
NoRet == [kind |-> "none", value |-> <<>>]
NoDur == [pc |-> "start", max_elev |-> 0, d |-> 0, duration |-> 0]

\* arguments a caller passes
Counts == 0 .. MaxCount
SeedArgs == {None} \cup { Some(n) : n \in 0 .. MaxSeed }
StartArgs ==
    {None, Some([isDatetime |-> FALSE, day |-> 0])}
    \cup { Some([isDatetime |-> TRUE, day |-> d]) : d \in 0 .. UtcDay(MaxClock) }
DayArgs == 0 .. MaxDays
LocalOffsets == {0, 330}

\* the state at import: the random source seeded from entropy, the local
\* timezone and the installed requests version given by the environment
Init ==
    /\ pc = "idle"
    /\ op = NoOp
    /\ rng \in RngStates
    /\ clock = 0
    /\ localOffset \in LocalOffsets
    /\ jsonErrorIsRequestException \in BOOLEAN
    /\ netCalls = 0
    /\ sim = NoFrame
    /\ ret = NoRet
    /\ path = "none"
    /\ prev = None
    /\ phase = None
    /\ dur = NoDur

\* the ambient clock advances between calls
Tick ==
    /\ pc = "idle"
    /\ clock < MaxClock
    /\ clock' = clock + 1
    /\ UNCHANGED <<pc, op, rng, localOffset, jsonErrorIsRequestException,
                   netCalls, sim, ret, path, prev, phase, dur>>

\* _simulated_passes(number, start_utc, seed) called directly: lines 108-125
CallSimulatedPasses ==
    /\ pc = "idle"
    /\ \E number \in Counts, start_utc \in StartArgs, seed \in SeedArgs, entropy \in RngStates :
          LET st == SimStart(number, start_utc, seed, entropy, clock)
          IN  /\ sim' = st.frame
              /\ rng' = st.rng
              /\ op' = [NoOp EXCEPT !.name = "_simulated_passes", !.number = number,
                                    !.start_utc = start_utc, !.seed = seed]
              /\ prev' = IF seed # None THEN prev ELSE None
    /\ pc' = "sim"
    /\ path' = "Direct"
    /\ UNCHANGED <<clock, localOffset, jsonErrorIsRequestException, netCalls,
                   ret, phase, dur>>

\* get_iss_passes(..., USE_REAL_API=False): lines 181-182
CallGetIssPassesDisabled ==
    /\ pc = "idle"
    /\ \E number_of_passes \in Counts, USE_REAL_API \in BOOLEAN, entropy \in RngStates :
          /\ ~UseLive(USE_REAL_API)
          /\ LET st == SimStart(FallbackNumber(number_of_passes), None, None, entropy, clock)
             IN  /\ sim' = st.frame
                 /\ rng' = st.rng
          /\ op' = [NoOp EXCEPT !.name = "get_iss_passes", !.number = number_of_passes,
                                !.USE_REAL_API = USE_REAL_API]
    /\ pc' = "sim"
    /\ path' = "Disabled"
    /\ prev' = None
    /\ UNCHANGED <<clock, localOffset, jsonErrorIsRequestException, netCalls,
                   ret, phase, dur>>

\* get_iss_passes(..., USE_REAL_API=True) up to the request: lines 184-186
CallGetIssPassesLive ==
    /\ pc = "idle"
    /\ \E number_of_passes \in Counts, USE_REAL_API \in BOOLEAN :
          /\ UseLive(USE_REAL_API)
          /\ op' = [NoOp EXCEPT !.name = "get_iss_passes", !.number = number_of_passes,
                                !.USE_REAL_API = USE_REAL_API]
    /\ pc' = "request"
    /\ path' = "LiveAttempt"
    /\ prev' = None
    /\ UNCHANGED <<rng, clock, localOffset, jsonErrorIsRequestException, netCalls,
                   sim, ret, phase, dur>>

\* requests.get ends in a failure outcome: lines 187-196, 211-213
RequestFallback ==
    /\ pc = "request"
    /\ \E resp \in Responses, entropy \in RngStates :
          LET o == Outcome(resp, jsonErrorIsRequestException)
              st == SimStart(FallbackNumber(op.number), None, None, entropy, clock)
          IN  /\ o.to = "fallback"
              /\ path' = o.why
              /\ sim' = st.frame
              /\ rng' = st.rng
    /\ netCalls' = netCalls + 1
    /\ pc' = "sim"
    /\ UNCHANGED <<op, clock, localOffset, jsonErrorIsRequestException, ret,
                   prev, phase, dur>>

\* requests.get succeeds with pass records: lines 198-209
RequestLive ==
    /\ pc = "request"
    /\ \E resp \in Responses :
          LET o == Outcome(resp, jsonErrorIsRequestException)
          IN  /\ o.to = "live"
              /\ path' = o.why
              /\ ret' = [kind |-> "return", value |-> PassInfo(resp.body.passes, localOffset)]
    /\ netCalls' = netCalls + 1
    /\ pc' = "done"
    /\ UNCHANGED <<op, rng, clock, localOffset, jsonErrorIsRequestException, sim,
                   prev, phase, dur>>

\* an exception that line 211 does not catch leaves get_iss_passes
RequestRaise ==
    /\ pc = "request"
    /\ \E resp \in Responses :
          LET o == Outcome(resp, jsonErrorIsRequestException)
          IN  /\ o.to = "raise"
              /\ path' = o.why
    /\ ret' = [kind |-> "raise", value |-> <<>>]
    /\ netCalls' = netCalls + 1
    /\ pc' = "done"
    /\ UNCHANGED <<op, rng, clock, localOffset, jsonErrorIsRequestException, sim,
                   prev, phase, dur>>

\* one iteration of the generator's loop: lines 127-168
SimLoop ==
    /\ pc = "sim"
    /\ sim.i < sim.number
    /\ LET it == SimIter(sim, rng, localOffset)
       IN  /\ sim' = it.frame
           /\ rng' = it.rng
           /\ phase' = Some(it.phase)
    /\ UNCHANGED <<pc, op, clock, localOffset, jsonErrorIsRequestException,
                   netCalls, ret, path, prev, dur>>

\* return passes: line 170 (and the return of the caller, get_iss_passes)
SimReturn ==
    /\ pc = "sim"
    /\ sim.i >= sim.number
    /\ ret' = [kind |-> "return", value |-> sim.passes]
    /\ pc' = "done"
    /\ UNCHANGED <<op, rng, clock, localOffset, jsonErrorIsRequestException,
                   netCalls, sim, path, prev, phase, dur>>

\* get_collision_risks(days): lines 218-266
CallGetCollisionRisks ==
    /\ pc = "idle"
    /\ \E days \in DayArgs :
          LET out == RisksFrom(1, rng, days, clock)
          IN  /\ ret' = [kind |-> "return", value |-> SortByMissDistance(out.risks)]
              /\ rng' = out.rng
              /\ op' = [NoOp EXCEPT !.name = "get_collision_risks", !.days = days]
    /\ pc' = "done"
    /\ path' = "Direct"
    /\ prev' = None
    /\ UNCHANGED <<clock, localOffset, jsonErrorIsRequestException, netCalls,
                   sim, phase, dur>>

\* the caller takes the result; a seeded generator call is remembered for
\* comparison with the next one
Finish ==
    /\ pc = "done"
    /\ prev' = IF op.name = "_simulated_passes" /\ op.seed # None
               THEN Some([number |-> op.number, seed |-> op.seed,
                          start_utc |-> op.start_utc, now |-> sim.now,
                          clock |-> clock, out |-> ret.value])
               ELSE None
    /\ pc' = "idle"
    /\ op' = NoOp
    /\ netCalls' = 0
    /\ sim' = NoFrame
    /\ ret' = NoRet
    /\ path' = "none"
    /\ phase' = None
    /\ UNCHANGED <<rng, clock, localOffset, jsonErrorIsRequestException, dur>>

Next ==
    \/ Tick
    \/ CallSimulatedPasses
    \/ CallGetIssPassesDisabled
    \/ CallGetIssPassesLive
    \/ RequestFallback
    \/ RequestLive
    \/ RequestRaise
    \/ SimLoop
    \/ SimReturn
    \/ CallGetCollisionRisks
    \/ Finish

Spec == Init /\ [][Next]_vars

(* ------------- elevation and duration over every draw ------------------ *)
DurInit ==
    /\ pc = "idle"
    /\ op = NoOp
    /\ rng = 0
    /\ clock = 0
    /\ localOffset = 0
    /\ jsonErrorIsRequestException = TRUE
    /\ netCalls = 0
    /\ sim = NoFrame
    /\ ret = NoRet
    /\ path = "none"
    /\ prev = None
    /\ phase = None
    /\ dur = NoDur

\* line 158, for a gauss value g in hundredths of a degree
DrawElevation ==
    /\ dur.pc = "start"
    /\ \E g \in GaussLo .. GaussHi :
          dur' = [dur EXCEPT !.pc = "elev", !.max_elev = MaxElev(g)]
    /\ UNCHANGED <<pc, op, rng, clock, localOffset, jsonErrorIsRequestException,
                   netCalls, sim, ret, path, prev, phase>>

\* line 159, for a drawn d
DrawDuration ==
    /\ dur.pc = "elev"
    /\ \E d \in DLo .. DHi :
          dur' = [dur EXCEPT !.pc = "done", !.d = d, !.duration = Duration(dur.max_elev, d)]
    /\ UNCHANGED <<pc, op, rng, clock, localOffset, jsonErrorIsRequestException,
                   netCalls, sim, ret, path, prev, phase>>

DurNext == DrawElevation \/ DrawDuration

SpecDur == DurInit /\ [][DurNext]_vars

TypeOK ==
    /\ pc \in {"idle", "request", "sim", "done"}
    /\ rng \in RngStates
    /\ clock \in 0 .. MaxClock
    /\ netCalls \in 0 .. 1

(* ------------------------------ claims --------------------------------- *)
AllFrom(events, source) == \A k \in 1 .. Len(events) : events[k].source = source

IssDone == pc = "done" /\ op.name = "get_iss_passes"

LiveFailures == {"RateLimited", "Forbidden", "NetworkError", "EmptyResult"}

\* C1: after each failure outcome of the single live request (RateLimited,
\* Forbidden, NetworkError, EmptyResult) get_iss_passes has made exactly one
\* request and returns as many events as were requested, all tagged simulated.
C1_FallbackAfterFailure ==
    (op.name = "get_iss_passes" /\ path \in LiveFailures) =>
        /\ pc \in {"sim", "done"}
        /\ netCalls = 1
        /\ pc = "done" => /\ ret.kind = "return"
                          /\ Len(ret.value) = op.number
                          /\ AllFrom(ret.value, "simulated")

C1_Witness ==
    /\ IssDone
    /\ path = "RateLimited"
    /\ op.number >= 2
    /\ Len(ret.value) = op.number
    /\ netCalls = 1

\* C2: with USE_REAL_API=False no request is made at any point of the call
\* and the result is exactly number_of_passes events of the generator.
C2_DisabledNoNetwork ==
    (op.name = "get_iss_passes" /\ ~op.USE_REAL_API) =>
        /\ netCalls = 0
        /\ pc # "request"
        /\ path = "Disabled"
        /\ pc = "done" => /\ ret.kind = "return"
                          /\ Len(ret.value) = op.number
                          /\ AllFrom(ret.value, "simulated")

C2_Witness ==
    /\ IssDone
    /\ ~op.USE_REAL_API
    /\ op.number >= 1
    /\ Len(ret.value) = op.number
    /\ netCalls = 0

ListedPaths == LiveFailures \cup {"Disabled", "Success"}

\* C3 as stated: on every listed path and for every accepted count the list
\* get_iss_passes returns has at least one event.
C3_NonEmptyAlways ==
    (IssDone /\ path \in ListedPaths /\ ret.kind = "return") => Len(ret.value) >= 1

\* C3 amended: on every listed path the returned list has at least one event
\* when at least one pass was requested; with a count of 0 the disabled and
\* fallback paths return the empty list.
C3_NonEmptyWhenRequested ==
    (IssDone /\ path \in ListedPaths) =>
        /\ ret.kind = "return"
        /\ op.number >= 1 => Len(ret.value) >= 1
        /\ (op.number = 0 /\ path # "Success") => ret.value = <<>>

C3_Witness ==
    /\ IssDone
    /\ path = "EmptyResult"
    /\ op.number >= 1
    /\ Len(ret.value) >= 1

\* C4: no failure of the live path, ParseError included, leaves
\* get_iss_passes as an exception: the call returns a list of the generator.
C4_NoFailurePropagates ==
    (IssDone /\ path \in LiveFailures \cup {"ParseError"}) =>
        /\ ret.kind = "return"
        /\ AllFrom(ret.value, "simulated")

\* C5 as stated: every returned event is tagged simulated or live, live
\* when built from upstream records and simulated when generated.
C5_SourceSimulatedOrLive ==
    (IssDone /\ ret.kind = "return") =>
        /\ \A k \in 1 .. Len(ret.value) : ret.value[k].source \in {"simulated", "live"}
        /\ path = "Success" => AllFrom(ret.value, "live")
        /\ path # "Success" => AllFrom(ret.value, "simulated")

\* C5 amended: every returned event is tagged simulated or n2yo, n2yo when
\* built from upstream records and simulated when generated.
C5_SourceSimulatedOrN2yo ==
    (IssDone /\ ret.kind = "return") =>
        /\ \A k \in 1 .. Len(ret.value) : ret.value[k].source \in {"simulated", "n2yo"}
        /\ path = "Success" => AllFrom(ret.value, "n2yo")
        /\ path # "Success" => AllFrom(ret.value, "simulated")

C5_Witness ==
    /\ IssDone
    /\ path = "Success"
    /\ Len(ret.value) = MaxLive
    /\ AllFrom(ret.value, "n2yo")

SeededDone == pc = "done" /\ op.name = "_simulated_passes" /\ op.seed # None /\ prev # None

\* C6 as stated: two calls of _simulated_passes with the same count, the same
\* seed and the same start_utc argument (the default included) return
\* identical lists, whatever the clock reads at each call.
C6_SameSeedSameOutput ==
    (SeededDone /\ prev[1].number = op.number /\ prev[1].seed = op.seed
                /\ prev[1].start_utc = op.start_utc)
        => ret.value = prev[1].out

\* C6 amended: two calls with the same count and the same seed return
\* identical lists when they start from the same UTC date, given explicitly
\* or read from the clock.
C6_SameSeedSameDate ==
    (SeededDone /\ prev[1].number = op.number /\ prev[1].seed = op.seed
                /\ prev[1].now = sim.now)
        => ret.value = prev[1].out

C6_Witness ==
    /\ SeededDone
    /\ prev[1].number = op.number
    /\ prev[1].seed = op.seed
    /\ op.number >= 2
    /\ op.start_utc = None
    /\ prev[1].start_utc = None
    /\ prev[1].clock # clock
    /\ ret.value = prev[1].out

RisksDone == pc = "done" /\ op.name = "get_collision_risks"

\* C7: the ATLAS V R/B event has distance sqrt(144 + 1), reported as 12.04,
\* and level Medium.
C7_AtlasMedium ==
    RisksDone =>
        \A k \in 1 .. Len(ret.value) :
            ret.value[k].object_name = "ATLAS V R/B" =>
                /\ ret.value[k].miss_distance_km = 1204
                /\ ret.value[k].level = "Medium"

Thresholds(m) == IF m < 1000 THEN "High" ELSE IF m < 3000 THEN "Medium" ELSE "Low"

\* C8: get_collision_risks returns 6 events, one per catalog entry, in
\* non-decreasing order of miss_distance_km, each with the level that the
\* thresholds 10 and 30 give its reported miss_distance_km.
C8_SixSortedClassified ==
    RisksDone =>
        /\ ret.kind = "return"
        /\ Len(ret.value) = 6
        /\ \A j \in 1 .. Len(debris_objects) :
              Cardinality({k \in 1 .. Len(ret.value) :
                              ret.value[k].object_name = debris_objects[j].name}) = 1
        /\ \A k \in 1 .. Len(ret.value) - 1 :
              ret.value[k].miss_distance_km <= ret.value[k + 1].miss_distance_km
        /\ \A k \in 1 .. Len(ret.value) :
              ret.value[k].level = Thresholds(ret.value[k].miss_distance_km)

C8_Witness ==
    /\ RisksDone
    /\ op.days = 1
    /\ Len(ret.value) = 6
    /\ ret.value[1].miss_distance_km < ret.value[6].miss_distance_km

Clamp(x, lo, hi) == IF x < lo THEN lo ELSE IF x > hi THEN hi ELSE x

\* C9 as stated: 10.0 <= max_elev_deg <= 85.0, 120 <= duration <= 900 and
\* duration equals clamp(120 + max_elev_deg*6 + d, 120, 900).
C9_DurationIsClamp ==
    dur.pc = "done" =>
        /\ 100 <= dur.max_elev /\ dur.max_elev <= 850
        /\ 120 <= dur.duration /\ dur.duration <= 900
        /\ 10 * dur.duration = Clamp(1200 + 6 * dur.max_elev + 10 * dur.d, 1200, 9000)

\* C9 amended: 10.0 <= max_elev_deg <= 85.0, 120 <= duration <= 900 and
\* duration equals clamp(120 + max_elev_deg*6 + d, 120, 900) with the sum
\* truncated to an integer before it is clamped.
C9_DurationIsClampOfTruncation ==
    dur.pc = "done" =>
        /\ 100 <= dur.max_elev /\ dur.max_elev <= 850
        /\ 120 <= dur.duration /\ dur.duration <= 900
        /\ \E t \in 0 .. 1000 :
              /\ 10 * t <= 1200 + 6 * dur.max_elev + 10 * dur.d
              /\ 1200 + 6 * dur.max_elev + 10 * dur.d < 10 * t + 10
              /\ dur.duration = Clamp(t, 120, 900)

C9_Witness ==
    /\ dur.pc = "done"
    /\ dur.max_elev = 453
    /\ dur.d = 0
    /\ dur.duration = 391

\* C10: in an iteration of the generator's loop the phase flag is flipped
\* exactly when the draw r is below 0.15 and kept otherwise.
C10_FlipBelow15 ==
    (pc = "sim" /\ phase # None) =>
        ((phase[1].after # phase[1].before) <=> RandomLess(phase[1].r, 15))

====
